---------------------------- MODULE Spec2Model ----------------------------
(***************************************************************************)
(* A model of extract_and_patch.py: the orchestrator (main), the extractor *)
(* (extract_har and safe_write) and the patcher (patch_index and its       *)
(* replacer), run by CPython 3.11 on a POSIX filesystem without symbolic   *)
(* links.  The locale of the process decides the encoding of file names,   *)
(* of text files opened without an encoding, and of standard output; the   *)
(* environment may fail the opening of a file, or accept only the first    *)
(* bytes written to it.  Standard output itself accepts what is encoded.   *)
(*                                                                         *)
(* Text is modelled character by character: a Python str is a sequence of  *)
(* characters, each a string that stands for one code point (Chr), so that *)
(* URL parsing, percent-decoding, the image-extension test and the         *)
(* regular-expression substitutions are computed the way the code computes *)
(* them.  A file's content is a sequence of byte values.  A path, as the   *)
(* operating system receives it, is a sequence of byte values too, and a   *)
(* filesystem location is the sequence of the names from the root          *)
(* directory down.  The HAR is taken as parsed: an entry's URL, body text  *)
(* and encoding are strings.                                               *)
(***************************************************************************)
EXTENDS Integers, Sequences, FiniteSets, TLC

VARIABLES
    prog,       \* the function the run is a run of: main, extract_har, patch_index
    locale,     \* the locale of the process (LC_CTYPE)
    pc,         \* control point of the run
    entries,    \* extract_har: the HAR's log.entries
    idx,        \* extract_har: position of the for loop (next entry, from 1)
    hosts,      \* extract_har: the host set
    written,    \* extract_har: the counter of files written
    outcome,    \* per processed entry, the branch the loop body took
    wrote,      \* the writes of extract_har's loop: entry number and location
    dirs,       \* filesystem: the directories
    files,      \* filesystem: location -> content of every regular file
    walk,       \* main: the directories os.walk has still to list
    todo,       \* main: the files of the directory listed last, still to copy
    copied,     \* main: the locations the copy loop has written
    doc,        \* patch_index: the text written back by the latest run
    doc0,       \* patch_index: the text the first run read
    docPrev,    \* patch_index: the text the latest run read
    order,      \* patch_index: the iteration order of the host set
    runs,       \* the number of calls of patch_index so far
    found,      \* the number of those calls that found the entry document
    patched,    \* the number of those calls that wrote the document back
    clock       \* the operating system's clock, in ticks

vars == <<prog, locale, pc, entries, idx, hosts, written, outcome, wrote, dirs, files,
          walk, todo, copied, doc, doc0, docPrev, order, runs, found, patched,
          clock>>

-----------------------------------------------------------------------------
(* Characters and strings                                                  *)

\* The printable ASCII characters, in code order from 32 (space) to 126
\* (code 96, the grave accent, is written "<96>").
AsciiChars ==
    <<" ","!","\"","#","$","%","&","'","(",")","*","+",",","-",".","/",
      "0","1","2","3","4","5","6","7","8","9",":",";","<","=",">","?",
      "@","A","B","C","D","E","F","G","H","I","J","K","L","M","N","O",
      "P","Q","R","S","T","U","V","W","X","Y","Z","[","\\","]","^","_",
      "<96>","a","b","c","d","e","f","g","h","i","j","k","l","m","n","o",
      "p","q","r","s","t","u","v","w","x","y","z","{","|","}","~">>

AsciiSet == {AsciiChars[i] : i \in 1..Len(AsciiChars)}

\* chr(n): the character with code point n.  Printable ASCII stands for
\* itself, tab, newline, form feed and carriage return are written as
\* escapes, every other code point n is written "<n>".
Chr(n) ==
    IF n >= 32 /\ n <= 126 THEN AsciiChars[n - 31]
    ELSE IF n = 10 THEN "\n"
    ELSE IF n = 9 THEN "\t"
    ELSE IF n = 13 THEN "\r"
    ELSE IF n = 12 THEN "\f"
    ELSE "<" \o ToString(n) \o ">"

\* The newline character.
NL == "\n"

\* ord(c) of a printable ASCII character.
OrdAscii(c) == 31 + (CHOOSE i \in 1..95 : AsciiChars[i] = c)

\* The number a text of decimal digits stands for.
RECURSIVE Decimal(_)
Decimal(s) ==
    IF Len(s) = 0 THEN 0
    ELSE 10 * Decimal(SubSeq(s, 1, Len(s) - 1))
         + (CHOOSE d \in 0..9 : ToString(d) = SubSeq(s, Len(s), Len(s)))

\* ord(c): the code point of a character.
Ord(c) ==
    IF c \in AsciiSet THEN OrdAscii(c)
    ELSE IF c = "\n" THEN 10
    ELSE IF c = "\t" THEN 9
    ELSE IF c = "\r" THEN 13
    ELSE IF c = "\f" THEN 12
    ELSE Decimal(SubSeq(c, 2, Len(c) - 1))

\* str.isascii() of one character.
IsAscii(c) == Ord(c) < 128

\* U+FFFD, what a decoder with errors='replace' puts for a malformed sequence.
ReplacementChar == Chr(65533)

\* Whether a code point is a surrogate (a str can hold one, UTF-8 cannot).
IsSurrogate(n) == n >= 55296 /\ n <= 57343

\* The lower-case form of an ASCII letter; any other character is itself.
LowerChar(c) ==
    IF c \in {AsciiChars[i] : i \in 34..59} THEN Chr(OrdAscii(c) + 32) ELSE c

\* s[a..b], empty when a > b.
Slice(s, a, b) == IF a > b THEN <<>> ELSE SubSeq(s, a, b)

\* Whether the literal lit occurs in s at position i.
HasAt(s, i, lit) ==
    /\ i >= 1
    /\ i + Len(lit) - 1 <= Len(s)
    /\ \A k \in 1..Len(lit) : s[i + k - 1] = lit[k]

\* str.startswith / str.endswith
StartsWith(s, lit) == HasAt(s, 1, lit)
EndsWith(s, lit) == HasAt(s, Len(s) - Len(lit) + 1, lit)

\* str.find(sub, from): the first position >= from where sub occurs, 0 if none.
Find(s, sub, from) ==
    LET hits == {i \in from..(Len(s) - Len(sub) + 1) : HasAt(s, i, sub)}
    IN  IF hits = {} THEN 0 ELSE CHOOSE i \in hits : \A j \in hits : i <= j

\* `sub in s`
Contains(s, sub) == Find(s, sub, 1) > 0

\* The first position >= from of an element of the set cs, 0 if none.
FindAny(s, cs, from) ==
    LET hits == {i \in from..Len(s) : s[i] \in cs}
    IN  IF hits = {} THEN 0 ELSE CHOOSE i \in hits : \A j \in hits : i <= j

\* str.rfind(c): the last position of the element c, 0 if none.
RFind(s, c) ==
    LET hits == {i \in 1..Len(s) : s[i] = c}
    IN  IF hits = {} THEN 0 ELSE CHOOSE i \in hits : \A j \in hits : j <= i

\* str.lstrip(chars): s without its leading run of elements of the set cs.
LStripSet(s, cs) ==
    LET keep == {i \in 1..Len(s) : s[i] \notin cs}
    IN  IF keep = {} THEN <<>>
        ELSE Slice(s, CHOOSE i \in keep : \A j \in keep : i <= j, Len(s))

\* str.lstrip(c)
LStrip(s, c) == LStripSet(s, {c})

\* str.rstrip(c)
RStrip(s, c) ==
    LET keep == {i \in 1..Len(s) : s[i] # c}
    IN  IF keep = {} THEN <<>>
        ELSE Slice(s, 1, CHOOSE i \in keep : \A j \in keep : j <= i)

\* The positions of s whose element is c, in increasing order.
Cuts(s, c) == SelectSeq([i \in 1..Len(s) |-> i], LAMBDA i : s[i] = c)

\* str.split(c): the pieces of s between the occurrences of c.
Split(s, c) ==
    LET cuts == Cuts(s, c)
        n    == Len(cuts)
    IN  [k \in 1..(n + 1) |->
            Slice(s, (IF k = 1 THEN 0 ELSE cuts[k - 1]) + 1,
                     (IF k = n + 1 THEN Len(s) + 1 ELSE cuts[k]) - 1)]

\* Comparison of two strings as Python compares str: by code point, then length.
StrLess(a, b) ==
    \E k \in 1..(Len(b)) :
        /\ \A j \in 1..(k - 1) : j <= Len(a) /\ a[j] = b[j]
        /\ \/ k = Len(a) + 1
           \/ k <= Len(a) /\ Ord(a[k]) < Ord(b[k])

\* sorted(S) for a set of strings.
RECURSIVE Sorted(_)
Sorted(S) ==
    IF S = {} THEN <<>>
    ELSE LET m == CHOOSE x \in S : \A y \in S \ {x} : StrLess(x, y)
         IN  <<m>> \o Sorted(S \ {m})

\* sep.join(seq)
RECURSIVE Join(_, _)
Join(sep, seq) ==
    IF seq = <<>> THEN <<>>
    ELSE IF Len(seq) = 1 THEN seq[1]
    ELSE seq[1] \o sep \o Join(sep, Tail(seq))

-----------------------------------------------------------------------------
(* UTF-8                                                                   *)

\* The UTF-8 encoding of a code point.
Utf8Bytes(n) ==
    IF n < 128 THEN <<n>>
    ELSE IF n < 2048 THEN <<192 + (n \div 64), 128 + (n % 64)>>
    ELSE IF n < 65536
    THEN <<224 + (n \div 4096), 128 + ((n \div 64) % 64), 128 + (n % 64)>>
    ELSE <<240 + (n \div 262144), 128 + ((n \div 4096) % 64),
           128 + ((n \div 64) % 64), 128 + (n % 64)>>

\* The concatenation of the byte sequences of the characters of a text, one
\* piece per character.  A piece is at most four bytes long.
Bytes(pieces) ==
    SelectSeq([k \in 1..(4 * Len(pieces)) |->
                 LET b == pieces[((k - 1) \div 4) + 1]
                     j == ((k - 1) % 4) + 1
                 IN  IF j <= Len(b) THEN b[j] ELSE -2],
              LAMBDA x : x # -2)

\* Whether str.encode(enc) succeeds, enc being 'utf-8' (the text holds no
\* surrogate) or 'ascii' (it holds no character above U+007F).
Encodable(enc, s) ==
    \A i \in 1..Len(s) :
        \/ s[i] \in AsciiSet
        \/ IF enc = "ascii" THEN Ord(s[i]) < 128 ELSE ~IsSurrogate(Ord(s[i]))

\* str.encode('utf-8'): the bytes of an encodable text (for a text of ASCII
\* characters these are the bytes of str.encode('ascii') too).
Encode(s) ==
    IF \A i \in 1..Len(s) : s[i] \in AsciiSet
    THEN [i \in 1..Len(s) |-> OrdAscii(s[i])]
    ELSE Bytes([i \in 1..Len(s) |-> Utf8Bytes(Ord(s[i]))])

\* The locales a run may have: C.UTF-8, a UTF-8 locale other than C and
\* POSIX, and the C locale taken as it is (neither coerced to C.UTF-8 nor
\* read in UTF-8 mode).
Locales == {"C.UTF-8", "en_US.UTF-8", "C"}

\* locale.getpreferredencoding(False), which open() takes for a text file
\* when no encoding is given; it is the encoding of file names and of
\* standard output as well.
LocaleEncoding == IF locale = "C" THEN "ascii" ELSE "utf-8"

\* os.fsencode of one character (the locale's encoding with
\* surrogateescape): a surrogate U+DC80..U+DCFF stands for the byte
\* 0x80..0xFF; any other character the encoding has no bytes for cannot be
\* encoded, which is marked by -1.
FsBytes(c) ==
    LET bytes(n) == IF n >= 56448 /\ n <= 56575 THEN <<n - 56320>>
                    ELSE IF IsSurrogate(n) THEN <<-1>>
                    ELSE IF n >= 128 /\ LocaleEncoding = "ascii" THEN <<-1>>
                    ELSE Utf8Bytes(n)
    IN  bytes(Ord(c))

\* os.fsencode(path): the path as the operating system receives it.
FsEncode(s) ==
    IF \A i \in 1..Len(s) : s[i] \in AsciiSet
    THEN [i \in 1..Len(s) |-> OrdAscii(s[i])]
    ELSE Bytes([i \in 1..Len(s) |-> FsBytes(s[i])])

\* Whether print(s) succeeds: sys.stdout encodes with the locale's encoding,
\* and with the error handler surrogateescape in the locales C, POSIX and
\* C.UTF-8, strict in any other; it raises UnicodeEncodeError otherwise.
PrintOk(s) ==
    IF locale = "en_US.UTF-8" THEN Encodable("utf-8", s)
    ELSE \A i \in 1..Len(s) : s[i] \in AsciiSet \/ FsBytes(s[i]) # <<-1>>

\* The items a UTF-8 decoder reads are bytes (0..255); an item of 256 or
\* more stands for a character that is passed through undecoded (code point
\* + 256).
IsCont(x) == x >= 128 /\ x <= 191

\* The number of continuation bytes a lead byte asks for (0: not a lead).
Utf8Need(x) ==
    IF x >= 194 /\ x <= 223 THEN 1
    ELSE IF x >= 224 /\ x <= 239 THEN 2
    ELSE IF x >= 240 /\ x <= 244 THEN 3
    ELSE 0

\* Whether x may follow the lead byte (no overlong form, no surrogate,
\* nothing above U+10FFFF).
Utf8SecondOk(lead, x) ==
    IF lead = 224 THEN x >= 160 /\ x <= 191
    ELSE IF lead = 237 THEN x >= 128 /\ x <= 159
    ELSE IF lead = 240 THEN x >= 144 /\ x <= 191
    ELSE IF lead = 244 THEN x >= 128 /\ x <= 143
    ELSE IsCont(x)

\* The number of continuation bytes the sequence that starts at j takes.
Utf8Taken(b, j) ==
    LET need == Utf8Need(b[j])
    IN  IF need >= 1 /\ j + 1 <= Len(b) /\ Utf8SecondOk(b[j], b[j + 1])
        THEN IF need >= 2 /\ j + 2 <= Len(b) /\ IsCont(b[j + 2])
             THEN IF need >= 3 /\ j + 3 <= Len(b) /\ IsCont(b[j + 3])
                  THEN 3 ELSE 2
             ELSE 1
        ELSE 0

\* The code point of the sequence that starts at j; -1 when it is malformed
\* (a stray continuation byte, an invalid lead byte, a truncated sequence).
Utf8Unit(b, j) ==
    LET x == b[j]
        need == Utf8Need(x)
    IN  IF x >= 256 THEN x - 256
        ELSE IF x < 128 THEN x
        ELSE IF need = 0 \/ Utf8Taken(b, j) < need THEN -1
        ELSE IF need = 1 THEN (x - 192) * 64 + (b[j + 1] - 128)
        ELSE IF need = 2
        THEN (x - 224) * 4096 + (b[j + 1] - 128) * 64 + (b[j + 2] - 128)
        ELSE (x - 240) * 262144 + (b[j + 1] - 128) * 4096
             + (b[j + 2] - 128) * 64 + (b[j + 3] - 128)

\* Whether the byte at i is taken by a sequence that starts before it.
Utf8Inside(b, i) ==
    /\ IsCont(b[i])
    /\ \E d \in 1..3 : i - d >= 1 /\ ~IsCont(b[i - d]) /\ Utf8Taken(b, i - d) >= d

\* The UTF-8 decoder: the code points of the items, -1 for each malformed
\* sequence (the longest prefix of it that could start a valid one).
Utf8Decode(b) ==
    IF \A i \in 1..Len(b) : b[i] < 128 THEN b
    ELSE SelectSeq([i \in 1..Len(b) |->
                       IF Utf8Inside(b, i) THEN -2 ELSE Utf8Unit(b, i)],
                   LAMBDA x : x # -2)

\* Universal newlines of a text file read: "\r\n" and "\r" become "\n".
Newlines(s) ==
    IF \A i \in 1..Len(s) : s[i] # "\r" THEN s
    ELSE SelectSeq([i \in 1..Len(s) |->
                       IF s[i] = "\r" THEN NL
                       ELSE IF s[i] = NL /\ i > 1 /\ s[i - 1] = "\r" THEN "skip"
                       ELSE s[i]],
                   LAMBDA c : c # "skip")

\* open(path, 'r', encoding='utf-8').read() of a file with content b: ok is
\* FALSE when it raises UnicodeDecodeError.
Decode(b) ==
    LET read(cps) ==
            [ok   |-> \A i \in 1..Len(cps) : cps[i] # -1,
             text |-> Newlines([i \in 1..Len(cps) |->
                                  IF cps[i] = -1 THEN ReplacementChar
                                  ELSE Chr(cps[i])])]
    IN  CHOOSE r \in {read(cps) : cps \in {Utf8Decode(b)}} : TRUE

-----------------------------------------------------------------------------
(* Library functions the extractor calls                                   *)

Letters == {AsciiChars[i] : i \in (34..59) \cup (66..91)}
Digits == {AsciiChars[i] : i \in 17..26}

\* urllib.parse.uses_params
uses_params ==
    { <<>>, <<"f","t","p">>, <<"h","d","l">>,
      <<"p","r","o","s","p","e","r","o">>, <<"h","t","t","p">>,
      <<"i","m","a","p">>, <<"h","t","t","p","s">>, <<"s","h","t","t","p">>,
      <<"r","t","s","p">>, <<"r","t","s","p","s">>, <<"r","t","s","p","u">>,
      <<"s","i","p">>, <<"s","i","p","s">>, <<"m","m","s">>,
      <<"s","f","t","p">>, <<"t","e","l">> }

HexDigits == {"0","1","2","3","4","5","6","7","8","9",
              "a","b","c","d","e","f","A","B","C","D","E","F"}

HexVal(c) ==
    LET val(o) == IF o <= 57 THEN o - 48 ELSE IF o <= 70 THEN o - 55 ELSE o - 87
    IN  val(OrdAscii(c))

\* urlsplit, first step: leading C0 controls and spaces are stripped
\* (_WHATWG_C0_CONTROL_OR_SPACE), and every tab, carriage return and newline
\* is removed (_UNSAFE_URL_BYTES_TO_REMOVE).
UrlClean(url) ==
    SelectSeq(LStripSet(url, {Chr(n) : n \in 0..32}),
              LAMBDA c : c \notin {"\t", "\r", "\n"})

\* The position of the ':' that ends the scheme of u, 0 when u has none.
SchemeEnd(u) ==
    LET i == Find(u, <<":">>, 1)
    IN  IF /\ i > 1
           /\ u[1] \in Letters
           /\ \A k \in 1..(i - 1) : u[k] \in Letters \cup Digits \cup {"+", "-", "."}
        THEN i ELSE 0

\* ipaddress.IPv4Address._parse_octet: whether it accepts the text.
IsOctet(o) ==
    /\ o # <<>>
    /\ \A k \in 1..Len(o) : o[k] \in Digits
    /\ Len(o) <= 3
    /\ (o = <<"0">> \/ o[1] # "0")
    /\ (Len(o) = 3 =>
          100 * HexVal(o[1]) + 10 * HexVal(o[2]) + HexVal(o[3]) <= 255)

\* Whether ipaddress.IPv4Address accepts the text.
IsIPv4(a) ==
    LET octets == Split(a, ".")
    IN  a # <<>> /\ "/" \notin {a[k] : k \in 1..Len(a)}
        /\ Len(octets) = 4 /\ \A k \in 1..4 : IsOctet(octets[k])

\* ipaddress.IPv6Address._parse_hextet: whether it accepts the text.
IsHextet(h) ==
    h # <<>> /\ Len(h) <= 4 /\ \A k \in 1..Len(h) : h[k] \in HexDigits

\* IPv6Address._ip_int_from_string: whether it accepts the parts the address
\* splits into at ':' (an IPv4 suffix already replaced by two hextets).
IsIPv6Parts(parts) ==
    LET n     == Len(parts)
        skips == {i \in 2..(n - 1) : parts[i] = <<>>}
        s     == CHOOSE i \in skips : TRUE
        hi    == IF parts[1] = <<>> THEN s - 2 ELSE s - 1
        lo    == IF parts[n] = <<>> THEN n - s - 1 ELSE n - s
    IN  /\ n <= 9
        /\ Cardinality(skips) <= 1
        /\ IF skips # {}
           THEN /\ parts[1] = <<>> => hi = 0
                /\ parts[n] = <<>> => lo = 0
                /\ 8 - (hi + lo) >= 1
                /\ \A i \in (1..hi) \cup ((n - lo + 1)..n) : IsHextet(parts[i])
           ELSE n = 8 /\ \A i \in 1..n : IsHextet(parts[i])

\* Whether ipaddress.IPv6Address accepts the text (with an optional scope
\* id after '%').
IsIPv6(h) ==
    LET hextets(parts, n, v4) ==
            /\ n >= 3
            /\ v4 => IsIPv4(parts[n])
            /\ IsIPv6Parts(IF v4
                           THEN Slice(parts, 1, n - 1) \o << <<"0">>, <<"0">> >>
                           ELSE parts)
        address(parts) ==
            hextets(parts, Len(parts),
                    "." \in {parts[Len(parts)][k] : k \in 1..Len(parts[Len(parts)])})
        scoped(p, addr, scope) ==
            /\ p > 0 => (scope # <<>> /\ "%" \notin {scope[k] : k \in 1..Len(scope)})
            /\ addr # <<>>
            /\ \E parts \in {Split(addr, ":")} : address(parts)
    IN  /\ "/" \notin {h[k] : k \in 1..Len(h)}
        /\ \E p \in {Find(h, <<"%">>, 1)} :
              scoped(p, IF p = 0 THEN h ELSE Slice(h, 1, p - 1),
                     Slice(h, p + 1, Len(h)))

\* re.match(r"\Av[a-fA-F0-9]+\..+\Z", h)
IsIPvFuture(h) ==
    LET d == CHOOSE k \in 2..(Len(h) + 1) :
                 /\ k = Len(h) + 1 \/ h[k] \notin HexDigits
                 /\ \A j \in 2..(k - 1) : h[j] \in HexDigits
    IN  /\ h # <<>> /\ h[1] = "v"
        /\ d > 2 /\ d < Len(h) /\ h[d] = "."
        /\ \A j \in (d + 1)..Len(h) : h[j] # NL

\* urlsplit's check of a netloc with brackets: ok is FALSE when it raises
\* ValueError.
BracketsOk(netloc) ==
    LET bracketed(host) ==
            IF StartsWith(host, <<"v">>) THEN IsIPvFuture(host) ELSE IsIPv6(host)
        upTo(rest, b) ==
            bracketed(IF b = 0 THEN rest ELSE Slice(rest, 1, b - 1))
        after(rest) == upTo(rest, Find(rest, <<"]">>, 1))
        checked(cs) ==
            IF "[" \notin cs /\ "]" \notin cs THEN TRUE
            ELSE IF "[" \notin cs \/ "]" \notin cs THEN FALSE
            ELSE \E rest \in {Slice(netloc, Find(netloc, <<"[">>, 1) + 1,
                                     Len(netloc))} : after(rest)
    IN  checked({netloc[k] : k \in 1..Len(netloc)})

\* urllib.parse._checknetloc: FALSE when it raises ValueError, which it does
\* for a character whose NFKC normalization holds one of '/', '?', '#', '@',
\* ':' (the code points listed, Unicode 14).
NetlocOk(netloc) ==
    \A k \in 1..Len(netloc) :
        \/ IsAscii(netloc[k])
        \/ Ord(netloc[k]) \notin
              {8263, 8264, 8265, 8448, 8449, 8453, 8454, 10868, 65043, 65046,
               65109, 65110, 65119, 65131, 65283, 65295, 65306, 65311, 65312}

\* urllib.parse._splitparams on a path that holds a ';'.
SplitParams(p) ==
    LET slash == RFind(p, "/")
        i     == FindAny(p, {";"}, IF slash = 0 THEN 1 ELSE slash)
    IN  IF i = 0 THEN p ELSE Slice(p, 1, i - 1)

\* urllib.parse.urlparse(url): ok is FALSE when it raises ValueError;
\* netloc runs from after '//' to the first of '/', '?', '#'; path is what
\* follows, up to the first '#' or '?', without the ';parameters' of its
\* last segment when the scheme has parameters.
urlparse(url) ==
    LET parsed(scheme, netloc, path) ==
            IF ~BracketsOk(netloc) \/ ~NetlocOk(netloc)
            THEN [ok |-> FALSE, netloc |-> <<>>, path |-> <<>>]
            ELSE [ok |-> TRUE, netloc |-> netloc,
                  path |-> IF scheme \in uses_params
                              /\ ";" \in {path[k] : k \in 1..Len(path)}
                           THEN SplitParams(path) ELSE path]
        pathOf(after, q) == IF q = 0 THEN after ELSE Slice(after, 1, q - 1)
        afterNetloc(scheme, netloc, after) ==
            parsed(scheme, netloc, pathOf(after, FindAny(after, {"?", "#"}, 1)))
        netlocTo(scheme, rest, slashes, delim) ==
            CHOOSE r \in
                {afterNetloc(scheme, netloc, after) :
                   netloc \in {IF slashes THEN Slice(rest, 3, delim - 1) ELSE <<>>},
                   after \in {IF slashes THEN Slice(rest, delim, Len(rest))
                              ELSE rest}} : TRUE
        netlocEnd(rest, d) == IF d = 0 THEN Len(rest) + 1 ELSE d
        afterScheme(scheme, rest) ==
            netlocTo(scheme, rest, StartsWith(rest, <<"/", "/">>),
                     netlocEnd(rest, FindAny(rest, {"/", "?", "#"}, 3)))
        split(u, c) ==
            CHOOSE r \in {afterScheme(scheme, rest) :
                             scheme \in {[k \in 1..(c - 1) |-> LowerChar(u[k])]},
                             rest \in {Slice(u, c + 1, Len(u))}} : TRUE
    IN  CHOOSE r \in {split(u, SchemeEnd(u)) : u \in {UrlClean(url)}} : TRUE

\* urllib.parse.urlparse(url).netloc
Netloc(url) == urlparse(url).netloc

\* urllib.parse.urlparse(url).path
UrlPath(url) == urlparse(url).path

\* Whether s holds a percent escape at i: '%' and two hex digits.
IsEscape(s, i) ==
    /\ i >= 1 /\ i + 2 <= Len(s)
    /\ s[i] = "%" /\ s[i + 1] \in HexDigits /\ s[i + 2] \in HexDigits

\* urllib.parse.unquote, first step: the items of the text.  An escape is
\* the byte it names, an ASCII character its own byte, any other character
\* is passed through (code point + 256); a '%' without two hex digits stays.
UnquoteItems(s) ==
    SelectSeq([i \in 1..Len(s) |->
                 IF IsEscape(s, i - 1) \/ IsEscape(s, i - 2) THEN -2
                 ELSE IF IsEscape(s, i) THEN 16 * HexVal(s[i + 1]) + HexVal(s[i + 2])
                 ELSE IF IsAscii(s[i]) THEN Ord(s[i])
                 ELSE 256 + Ord(s[i])],
              LAMBDA x : x # -2)

\* urllib.parse.unquote(s): the runs of bytes are decoded as UTF-8 with
\* errors='replace'.
Unquote(s) ==
    IF \A i \in 1..Len(s) : s[i] # "%" THEN s
    ELSE LET text(cps) ==
                 [i \in 1..Len(cps) |->
                     IF cps[i] = -1 THEN ReplacementChar ELSE Chr(cps[i])]
         IN  CHOOSE r \in {text(cps) : cps \in {Utf8Decode(UnquoteItems(s))}} : TRUE

\* The base64 alphabet.
B64Alphabet == Letters \cup Digits \cup {"+", "/"}

\* The value of a character of the base64 alphabet.
B64Val(c) ==
    IF OrdAscii(c) >= 65 /\ OrdAscii(c) <= 90 THEN OrdAscii(c) - 65
    ELSE IF OrdAscii(c) >= 97 /\ OrdAscii(c) <= 122 THEN OrdAscii(c) - 71
    ELSE IF OrdAscii(c) >= 48 /\ OrdAscii(c) <= 57 THEN OrdAscii(c) + 4
    ELSE IF c = "+" THEN 62
    ELSE 63

\* binascii.a2b_base64 (not strict).  A character outside the alphabet is
\* skipped.  A '=' ends the decoding when the group of four it is in has two
\* or three characters and the '=' since the last of them fill it up.  With
\* no such '=', a last group that is not full is an error.
a2b_base64(s) ==
    LET data(i)  == Cardinality({j \in 1..(i - 1) : s[j] \in B64Alphabet})
        pads(i)  == Cardinality({j \in 1..i :
                        /\ s[j] = "="
                        /\ \A k \in j..i : s[k] \notin B64Alphabet})
        byte(a, b, j) == IF j = 0 THEN a * 4 + (b \div 16)
                         ELSE IF j = 1 THEN (a % 16) * 16 + (b \div 4)
                         ELSE (a % 4) * 64 + b
        decoded(full, v) ==
            IF ~full /\ Len(v) % 4 # 0 THEN [ok |-> FALSE, data |-> <<>>]
            ELSE [ok |-> TRUE,
                  data |-> [k \in 1..((Len(v) * 6) \div 8) |->
                              byte(v[4 * ((k - 1) \div 3) + ((k - 1) % 3) + 1],
                                   v[4 * ((k - 1) \div 3) + ((k - 1) % 3) + 2],
                                   (k - 1) % 3)]]
        upTo(full, last) ==
            CHOOSE r \in {decoded(full, v) :
                             v \in {[k \in 1..Len(w) |-> B64Val(w[k])] :
                                      w \in {SelectSeq(Slice(s, 1, last),
                                                       LAMBDA c : c \in B64Alphabet)}}} :
                TRUE
        stopAt(stops) ==
            upTo(stops # {},
                 IF stops = {} THEN Len(s)
                 ELSE CHOOSE i \in stops : \A j \in stops : i <= j)
    IN  stopAt({i \in 1..Len(s) :
                   /\ s[i] = "="
                   /\ data(i) % 4 >= 2
                   /\ (data(i) % 4) + pads(i) >= 4})

\* base64.b64decode(text): ok is FALSE when it raises (ValueError for a text
\* with a character that is not ASCII, binascii.Error from the decoder).
b64decode(text) ==
    IF \E i \in 1..Len(text) : ~IsAscii(text[i])
    THEN [ok |-> FALSE, data |-> <<>>]
    ELSE a2b_base64(text)

\* os.path.join(a, p), of strings (sep is "/") or of byte paths (sep is 47).
JoinWith(sep, a, p) ==
    IF StartsWith(p, <<sep>>) THEN p
    ELSE IF a = <<>> \/ EndsWith(a, <<sep>>) THEN a \o p
    ELSE a \o <<sep>> \o p

PathJoin(a, p) == JoinWith("/", a, p)

\* os.path.dirname(p), of a string or of a byte path.
DirNameWith(sep, p) ==
    LET head == Slice(p, 1, RFind(p, sep))
    IN  IF RStrip(head, sep) = <<>> THEN head ELSE RStrip(head, sep)

DirName(p) == DirNameWith("/", p)

-----------------------------------------------------------------------------
(* The filesystem                                                          *)

\* The byte '/'.
Slash == 47

\* The names '.' and '..'.
Dot == <<46>>
DotDot == <<46, 46>>

\* The longest file name and the longest path the system accepts, in bytes
\* (the path with its terminating null byte).
NAME_MAX == 255
PATH_MAX == 4096

\* The working directory of the process: /c.
CwdLoc == << <<99>> >>

\* The location a sequence of names leads to from loc ('' and '.' stay,
\* '..' goes to the parent, the root is its own parent).
RECURSIVE Walk(_, _)
Walk(loc, comps) ==
    IF comps = <<>> THEN loc
    ELSE LET c == comps[1]
             next == IF c = <<>> \/ c = Dot THEN loc
                     ELSE IF c = DotDot
                     THEN Slice(loc, 1, Len(loc) - 1)
                     ELSE Append(loc, c)
         IN  Walk(next, Tail(comps))

\* Where path resolution starts: the root for an absolute path.
StartLoc(bp) == IF StartsWith(bp, <<Slash>>) THEN <<>> ELSE CwdLoc

\* The location a byte path names.
LocB(bp) == Walk(StartLoc(bp), Split(bp, Slash))

\* The location a path names.
Loc(p) == LocB(FsEncode(p))

\* The locations of the successive prefixes of a byte path.
PrefixLocs(bp) ==
    LET comps == Split(bp, Slash)
    IN  [k \in 1..Len(comps) |-> Walk(StartLoc(bp), Slice(comps, 1, k))]

\* Whether the system call refuses the k-th prefix of a byte path outright:
\* a name with a character that cannot be encoded (-1) or with a null byte,
\* a name longer than NAME_MAX, a prefix longer than PATH_MAX.
BadPrefix(bp, k) ==
    LET comps == Split(bp, Slash)
        c     == comps[k]
        upTo  == IF k = Len(comps) THEN Len(bp) ELSE Cuts(bp, Slash)[k] - 1
    IN  \/ \E i \in 1..Len(c) : c[i] \in {-1, 0}
        \/ Len(c) > NAME_MAX
        \/ (c # <<>> /\ upTo > PATH_MAX - 1)

\* os.path.exists(path) in the filesystem (d, f).
exists(d, f, bp) ==
    LET comps == Split(bp, Slash)
        locs  == PrefixLocs(bp)
        n     == Len(comps)
    IN  /\ bp # <<>>
        /\ \A k \in 1..n : ~BadPrefix(bp, k)
        /\ Len(bp) <= PATH_MAX - 1
        /\ \A k \in 1..(n - 1) : locs[k] \in d
        /\ IF comps[n] \in {<<>>, Dot, DotDot} THEN locs[n] \in d
           ELSE locs[n] \in d \cup DOMAIN f

\* os.makedirs(name, exist_ok=True) in the filesystem (d, f): every prefix of
\* name becomes a directory; it raises at the first prefix that is a regular
\* file or that the system refuses (and for the empty name), keeping the
\* directories made before.
makedirs(d, f, bp) ==
    LET made(locs, bad) ==
            [ok   |-> bad = {},
             dirs |-> d \cup {locs[k] : k \in {j \in 1..Len(locs) :
                                                 \A b \in bad : j < b}}]
        upTo(locs) ==
            made(locs, {k \in 1..Len(locs) :
                          locs[k] \in DOMAIN f \/ BadPrefix(bp, k)})
    IN  IF bp = <<>> THEN [ok |-> FALSE, dirs |-> d]
        ELSE CHOOSE r \in {upTo(locs) : locs \in {PrefixLocs(bp)}} : TRUE

\* Whether open(path, 'w') or open(path, 'wb') succeeds in the filesystem
\* (d, f): the directories on the way exist, the last name is a file name
\* and names no directory.
CanOpenWrite(d, f, bp) ==
    LET comps == Split(bp, Slash)
        locs  == PrefixLocs(bp)
        n     == Len(comps)
    IN  /\ bp # <<>>
        /\ \A k \in 1..n : ~BadPrefix(bp, k)
        /\ Len(bp) <= PATH_MAX - 1
        /\ \A k \in 1..(n - 1) : locs[k] \in d
        /\ comps[n] \notin {<<>>, Dot, DotDot}
        /\ locs[n] \notin d

\* What the environment does to the writing of n bytes to a file: nothing,
\* or it makes open raise (no permission, no file descriptor left), or it
\* accepts only the first kept bytes written to the file, any number less
\* than n (a full disk, a file size limit), after which the write raises.
IoFails(n) ==
    {[at |-> "none", kept |-> 0], [at |-> "open", kept |-> 0]}
    \cup {[at |-> "write", kept |-> k] : k \in 0..(n - 1)}

\* open(path, 'wb') and f.write(content) in the filesystem (d, f).  open
\* creates the file or empties it; it raises when the path cannot be opened
\* or the environment fails it, and the files are then as before.  When the
\* environment accepts fewer bytes than the content has, the file is left
\* with the bytes accepted and the write (at the latest the close) raises.
OpenWrite(d, f, bp, content, ioFail) ==
    LET opened(can, loc, short) ==
            IF ~can THEN [ok |-> FALSE, files |-> f]
            ELSE [ok |-> ~short,
                  files |-> [l \in DOMAIN f \cup {loc} |->
                               IF l # loc THEN f[l]
                               ELSE IF short THEN Slice(content, 1, ioFail.kept)
                               ELSE content]]
    IN  CHOOSE r \in {opened(can, LocB(bp),
                             ioFail.at = "write" /\ ioFail.kept < Len(content)) :
                         can \in {ioFail.at # "open" /\ CanOpenWrite(d, f, bp)}} :
            TRUE

\* open(path, 'w', encoding=enc) and f.write(text): as above for the encoded
\* text; a text that cannot be encoded makes write raise, after open has
\* created or emptied the file.
OpenWriteText(d, f, bp, text, enc, ioFail) ==
    LET result(able, w) == [ok |-> able /\ w.ok, files |-> w.files]
        opened(able) ==
            result(able, OpenWrite(d, f, bp, IF able THEN Encode(text) ELSE <<>>,
                                   ioFail))
    IN  CHOOSE r \in {opened(able) : able \in {Encodable(enc, text)}} : TRUE

\* safe_write(path, data, binary): ok is FALSE when it raises.  The text of
\* a file that is not binary is encoded as the locale says (line 13 gives
\* open no encoding).
safe_write(d, f, path, data, binary, ioFail) ==
    LET result(m, w) == [ok |-> w.ok, dirs |-> m.dirs, files |-> w.files]
        open(m, bp) ==
            IF ~m.ok THEN [ok |-> FALSE, dirs |-> m.dirs, files |-> f]
            ELSE CHOOSE r \in
                     {result(m, w) :
                        w \in {IF binary
                               THEN OpenWrite(m.dirs, f, bp, data, ioFail)
                               ELSE OpenWriteText(m.dirs, f, bp, data,
                                                  LocaleEncoding, ioFail)}} :
                     TRUE
    IN  CHOOSE r \in {open(m, FsEncode(path)) :
                         m \in {makedirs(d, f, FsEncode(DirName(path)))}} : TRUE

-----------------------------------------------------------------------------
(* The extractor: extract_har                                              *)

IMAGE_EXTS == {<<".","p","n","g">>, <<".","j","p","g">>, <<".","j","p","e","g">>,
               <<".","g","i","f">>, <<".","w","e","b","p">>, <<".","s","v","g">>,
               <<".","i","c","o">>}

\* A buggy variant of the image test that forgets lower().
IsImage_nolower(s) == \E ext \in IMAGE_EXTS : EndsWith(s, ext)

\* s.lower().endswith(IMAGE_EXTS).  The extensions are ASCII, and lower()
\* yields an ASCII letter of theirs only from that letter in either case (of
\* all other characters only U+0130 and U+212A lower to text with an ASCII
\* letter: to 'i' followed by U+0307, and to 'k'), so the test is whether
\* the text ends in an extension with its ASCII letters in either case.
IsImage(s) ==
    \E ext \in IMAGE_EXTS :
        /\ Len(s) >= Len(ext)
        /\ \A k \in 1..Len(ext) : LowerChar(s[Len(s) - Len(ext) + k]) = ext[k]

\* The site root given on the command line (out_dir), and the staging
\* directory main derives from it.
RootArg == <<"r">>
out_sub == PathJoin(RootArg, <<"o","u","t","_","e","x","t","r","a","c","t","e","d">>)
HostsFileName == <<"e","x","t","r","a","c","t","e","d","_","h","o","s","t","s",".","t","x","t">>

\* The host of an entry (parsed.netloc).
EntryHost(e) == Netloc(e.url)

\* The path extract_har derives for an entry.
EntryPath(e) ==
    LET named(p, path) ==
            IF path = <<>>
            THEN p.netloc \o <<"/","i","n","d","e","x",".","h","t","m","l">>
            ELSE path
    IN  CHOOSE r \in {named(p, Unquote(LStrip(p.path, "/"))) :
                         p \in {urlparse(e.url)}} : TRUE

\* out_path = os.path.join(out_dir, path)
OutPath(out_dir, e) == PathJoin(out_dir, EntryPath(e))

\* The bytes an entry's body stands for: base64-decoded when the encoding is
\* "base64", the text as it is otherwise.
BodyBytes(e) ==
    IF e.encoding = "base64" THEN b64decode(e.text).data ELSE Encode(e.text)

\* The directories that exist when main starts: the root, the working
\* directory and the site root.
MainDirs == {<<>>, CwdLoc, Loc(RootArg)}

\* The directories that exist when main calls extract_har: the staging
\* directory has been made.
InitDirs == MainDirs \cup {Loc(out_sub)}

\* The bound on the number of entries of a HAR.
MaxEntries == 2

HttpA == <<"h","t","t","p",":","/","/","a",".","i","o">>
HttpB == <<"h","t","t","p",":","/","/","b",".","i","o">>

UrlX == <<"/","x",".","j","s">>

\* URLs whose body extract_har tries to write.
WriteUrls ==
    { HttpA,                                                    \* empty path
      HttpA \o UrlX,
      HttpB \o UrlX,                                            \* same path, other host
      HttpA \o <<"/","%","2","e","%","2","e">> \o UrlX,
      HttpA \o <<"/","%","2","F","x",".","j","s">>,
      HttpA \o UrlX \o <<"/","y",".","j","s">>,                 \* x.js as a directory
      HttpA \o <<"/","d","/">>,                                 \* a directory path
      HttpB \o <<"/">> \o HostsFileName,
      HttpB \o <<"/">> \o HostsFileName \o <<"/","y",".","j","s">>,
      <<" ">> \o HttpA \o UrlX \o <<";","v","=","1",".","p","n","g">>,  \* blank, parameters
      HttpB \o <<"/","%","C","3","%","A","9",".","j","s">>,     \* a UTF-8 name
      HttpB \o <<"/",Chr(56448),".","j","s">> }                 \* a lone surrogate

\* URLs of images.
ImageUrls ==
    { HttpA \o <<"/","x",".","p","n","g">>,
      HttpB \o <<"/","d","/","X",".","P","N","G","?","v","=","1">>,
      HttpA \o <<"/","x","%","2","E","p","n","g">> }

\* A URL urlparse does not accept: a bracket that is never closed.
BadUrl == <<"h","t","t","p",":","/","/","[","a",".","i","o">> \o UrlX

Entry(u, h, t, enc) == [url |-> u, hasText |-> h, text |-> t, encoding |-> enc]

\* The body most entries carry: as text 'QUI=', as base64 the bytes 'AB'.
Body == <<"Q","U","I","=">>

\* The entries a HAR is drawn from: plain-text bodies, base64 bodies (one
\* with incorrect padding, one with a character that is not ASCII), a text
\* that cannot be encoded, entries without a body, images, entries without
\* a host or a URL, and a URL that cannot be parsed.  Of the two entries
\* without a body, one has a URL that is not ASCII.
EntrySet ==
    {Entry(u, TRUE, Body, "none") : u \in WriteUrls}
    \cup {Entry(HttpA \o UrlX, TRUE, t, "base64") :
            t \in {Body, <<"Q","Q">>, <<"Q","U",Chr(233),"I","=">>}}
    \cup {Entry(HttpA \o UrlX, TRUE, <<"A",Chr(55296)>>, "none")}
    \cup {Entry(HttpB \o UrlX, FALSE, <<>>, "none")}
    \cup {Entry(HttpB \o <<"/",Chr(233)>>, FALSE, <<>>, "none")}
    \cup {Entry(u, TRUE, Body, "none") : u \in ImageUrls \cup {UrlX, <<>>, BadUrl}}

\* The entry the loop is at.
Cur == entries[idx]

InLoop == pc = "extract" /\ idx <= Len(entries)

\* What extract_har leaves alone: the copy loop's and the patcher's state.
RestUnchanged ==
    UNCHANGED <<prog, locale, walk, todo, copied, doc, doc0, docPrev, order, runs,
                found, patched, clock>>

\* Lines 26-27: no URL, the entry is skipped.
SkipNoUrl ==
    /\ InLoop
    /\ Cur.url = <<>>
    /\ idx' = idx + 1
    /\ outcome' = Append(outcome, "no_url")
    /\ UNCHANGED <<entries, hosts, written, dirs, files, wrote, pc>>
    /\ RestUnchanged

\* Line 28: urlparse raises ValueError, which nothing catches: extract_har
\* is left before the host file is written.
RaiseBadUrl ==
    /\ InLoop
    /\ Cur.url # <<>>
    /\ ~urlparse(Cur.url).ok
    /\ pc' = "aborted"
    /\ outcome' = Append(outcome, "raised")
    /\ UNCHANGED <<entries, idx, hosts, written, dirs, files, wrote>>
    /\ RestUnchanged

\* Whether the loop body gets past line 31: a URL with a host.
HasHost(e) ==
    e.url # <<>> /\ \E p \in {urlparse(e.url)} : p.ok /\ p.netloc # <<>>

\* Lines 28-31: a URL without a host, the entry is skipped.
SkipNoHost ==
    /\ InLoop
    /\ Cur.url # <<>>
    /\ urlparse(Cur.url).ok
    /\ EntryHost(Cur) = <<>>
    /\ idx' = idx + 1
    /\ outcome' = Append(outcome, "no_host")
    /\ UNCHANGED <<entries, hosts, written, dirs, files, wrote, pc>>
    /\ RestUnchanged

\* A buggy variant that collects no host for an image entry.
HostsAfterImage_skip(e) == hosts

\* The host set after an image entry (line 32 runs before the image test).
HostsAfterImage(e) == hosts \cup {EntryHost(e)}

\* Lines 32-39: the host is collected, an image path is skipped.
SkipImage ==
    /\ InLoop
    /\ HasHost(Cur)
    /\ IsImage(EntryPath(Cur))
    /\ hosts' = HostsAfterImage(Cur)
    /\ idx' = idx + 1
    /\ outcome' = Append(outcome, "image")
    /\ UNCHANGED <<entries, written, dirs, files, wrote, pc>>
    /\ RestUnchanged

\* Lines 41-48: no body, the entry is reported and skipped.  The report
\* prints the URL (and the status, a number); when print raises, nothing
\* catches it and extract_har is left.
SkipNoBody ==
    /\ InLoop
    /\ HasHost(Cur)
    /\ ~IsImage(EntryPath(Cur))
    /\ ~Cur.hasText
    /\ hosts' = hosts \cup {EntryHost(Cur)}
    /\ IF PrintOk(Cur.url)
       THEN /\ idx' = idx + 1
            /\ outcome' = Append(outcome, "no_body")
            /\ pc' = pc
       ELSE /\ idx' = idx
            /\ outcome' = Append(outcome, "no_body_raised")
            /\ pc' = "aborted"
    /\ UNCHANGED <<entries, written, dirs, files, wrote>>
    /\ RestUnchanged

\* The body of the try statement, lines 51-55: the decoding and safe_write.
TryBody(e, out_path, ioFail) ==
    LET body(b) ==
            IF ~b.ok THEN [ok |-> FALSE, dirs |-> dirs, files |-> files]
            ELSE safe_write(dirs, files, out_path, b.data, e.encoding = "base64",
                            ioFail)
    IN  CHOOSE r \in
            {body(b) : b \in {IF e.encoding = "base64" THEN b64decode(e.text)
                              ELSE [ok |-> TRUE, data |-> e.text]}} : TRUE

\* Lines 41-59: the body is written and the write reported (line 57, inside
\* the try); an exception is caught and reported (line 59), and the loop
\* goes on.  Both reports print out_path: when print raises at line 57 the
\* handler's print raises as well, and when the handler's print raises
\* nothing catches it: extract_har is left, with the file written or not.
TryWrite ==
    /\ InLoop
    /\ HasHost(Cur)
    /\ ~IsImage(EntryPath(Cur))
    /\ Cur.hasText
    /\ hosts' = hosts \cup {EntryHost(Cur)}
    /\ \E out_path \in {OutPath(out_sub, Cur)} :
       \E ioFail \in IoFails(Len(BodyBytes(Cur))) :
       \E r \in {TryBody(Cur, out_path, ioFail)} :
             /\ dirs' = r.dirs
             /\ files' = r.files
             /\ written' = IF r.ok THEN written + 1 ELSE written
             /\ wrote' = IF r.ok
                         THEN wrote \cup {[i |-> idx, loc |-> Loc(out_path)]}
                         ELSE wrote
             /\ IF PrintOk(out_path)
                THEN /\ outcome' = Append(outcome, IF r.ok THEN "wrote" ELSE "error")
                     /\ idx' = idx + 1
                     /\ pc' = pc
                ELSE /\ outcome' = Append(outcome, IF r.ok THEN "wrote_raised"
                                                   ELSE "error_raised")
                     /\ idx' = idx
                     /\ pc' = "aborted"
    /\ UNCHANGED entries
    /\ RestUnchanged

\* The text of extracted_hosts.txt: "\n".join(sorted(hosts)).
HostsText(hs) == Join(<<NL>>, Sorted(hs))

HostsFilePath(out_dir) == PathJoin(out_dir, HostsFileName)

\* Lines 60-63: after the loop, the host file is written as UTF-8 and the
\* host set returned, to main when the run is one of main; an exception of
\* this open() or write() is not caught.
WriteHostsFile ==
    /\ pc = "extract"
    /\ idx > Len(entries)
    /\ \E text \in {HostsText(hosts)} :
       \E ioFail \in IoFails(Len(Encode(text))) :
       \E w \in {OpenWriteText(dirs, files, FsEncode(HostsFilePath(out_sub)),
                               text, "utf-8", ioFail)} :
           /\ files' = w.files
           /\ pc' = IF ~w.ok THEN "aborted"
                    ELSE IF prog = "main" THEN "copy" ELSE "done"
    /\ walk' = IF prog = "main" THEN <<FsEncode(out_sub)>> ELSE walk
    /\ UNCHANGED <<prog, locale, entries, idx, hosts, written, outcome, dirs, wrote,
                   todo, copied, doc, doc0, docPrev, order, runs, found,
                   patched, clock>>

\* The state of the patcher and of the copy loop before either has run.
Untouched ==
    /\ walk = <<>>
    /\ todo = <<>>
    /\ copied = {}
    /\ doc = <<>>
    /\ doc0 = <<>>
    /\ docPrev = <<>>
    /\ order = <<>>
    /\ runs = 0
    /\ found = 0
    /\ patched = 0
    /\ clock = 0

InitExtract ==
    /\ locale \in Locales
    /\ prog = "extract_har"
    /\ pc = "extract"
    /\ entries \in UNION {[1..n -> EntrySet] : n \in 0..MaxEntries}
    /\ idx = 1
    /\ hosts = {}
    /\ written = 0
    /\ outcome = <<>>
    /\ wrote = {}
    /\ dirs = InitDirs
    /\ files = <<>>
    /\ Untouched

NextExtract ==
    \/ SkipNoUrl
    \/ RaiseBadUrl
    \/ SkipNoHost
    \/ SkipImage
    \/ SkipNoBody
    \/ TryWrite
    \/ WriteHostsFile

\* extract_har on a HAR of at most MaxEntries entries, into the staging
\* directory of an otherwise empty site root.
SpecExtract == InitExtract /\ [][NextExtract]_vars

-----------------------------------------------------------------------------
(* The patcher: the regular expressions of patch_index                     *)

\* A match of a pattern: end is the position of its last character (0 when
\* the pattern does not match), gs..ge the span of group 1.
NoMatch == [end |-> 0, gs |-> 0, ge |-> 0]

\* The characters \s matches in a str pattern, by their code points: the
\* ASCII whitespace and the characters Unicode (14) counts as whitespace.
WhiteSpace ==
    {Chr(n) : n \in (9..13) \cup (28..32) \cup {133, 160, 5760} \cup (8192..8202)
                    \cup {8232, 8233, 8239, 8287, 12288}}

Quote == "\""

\* The first position >= from whose character is not in cs (Len(s)+1 if none).
SkipRun(s, cs, from) ==
    LET stops == {i \in from..Len(s) : s[i] \notin cs}
    IN  IF stops = {} THEN Len(s) + 1 ELSE CHOOSE i \in stops : \A j \in stops : i <= j

\* <tag[^>]+attr="([^"]+)" at position i (tag is '<script' or '<link', attr
\* is 'src="' or 'href="').  [^>]+ is greedy: of the attributes of that name
\* before the next '>', the last one with a non-empty value that is closed
\* by a quote is the one matched.
MatchTagAttr(s, i, tag, attr) ==
    LET a     == i + Len(tag)
        gt    == FindAny(s, {">"}, a)
        m     == IF gt = 0 THEN Len(s) + 1 ELSE gt
        cands == {p \in (a + 1)..m :
                    /\ HasAt(s, p, attr)
                    /\ FindAny(s, {Quote}, p + Len(attr)) > p + Len(attr)}
        p     == CHOOSE x \in cands : \A y \in cands : y <= x
    IN  IF ~HasAt(s, i, tag) \/ cands = {} THEN NoMatch
        ELSE [end |-> FindAny(s, {Quote}, p + Len(attr)),
              gs  |-> p + Len(attr),
              ge  |-> FindAny(s, {Quote}, p + Len(attr)) - 1]

\* https?:// at position i: the position after it, 0 when it does not match.
AfterHttp(s, i) ==
    LET j == IF HasAt(s, i + 4, <<"s">>) THEN i + 5 ELSE i + 4
    IN  IF HasAt(s, i, <<"h","t","t","p">>) /\ HasAt(s, j, <<":","/","/">>)
        THEN j + 3 ELSE 0

\* @import\s+url\(["']?(https?://[^)]+)["']?\) at position i.  [^)]+ is
\* greedy and a quote is not a ')': group 1 runs up to the closing
\* parenthesis and takes a closing quote with it.
MatchImport(s, i) ==
    LET closed(u, r, c) ==
            IF r > 0 /\ c > r THEN [end |-> c, gs |-> u, ge |-> c - 1]
            ELSE NoMatch
        url(u, r) == closed(u, r, IF r > 0 THEN FindAny(s, {")"}, r) ELSE 0)
        quoted(k) ==
            CHOOSE m \in {url(u, AfterHttp(s, u)) :
                             u \in {IF k <= Len(s) /\ s[k] \in {Quote, "'"}
                                    THEN k + 1 ELSE k}} : TRUE
        spaced(j, w) ==
            IF w > j /\ HasAt(s, w, <<"u","r","l","(">>) THEN quoted(w + 4)
            ELSE NoMatch
    IN  IF HasAt(s, i, <<"@","i","m","p","o","r","t">>)
        THEN CHOOSE m \in {spaced(i + 7, w) :
                              w \in {SkipRun(s, WhiteSpace, i + 7)}} : TRUE
        ELSE NoMatch

NextStatic == <<"/","_","n","e","x","t","/","s","t","a","t","i","c","/">>

\* [^/]+/_next/static/ from position r on: a non-empty run without '/'
\* followed by the literal.
MatchHostNext(s, r) ==
    LET k == FindAny(s, {"/"}, r)
    IN  IF r > 0 /\ k > r /\ HasAt(s, k, NextStatic)
        THEN [end |-> k + Len(NextStatic) - 1, gs |-> 0, ge |-> 0]
        ELSE NoMatch

\* //[^/]+/_next/static/ at position i.
MatchSlashNext(s, i) ==
    IF HasAt(s, i, <<"/","/">>) THEN MatchHostNext(s, i + 2) ELSE NoMatch

\* \s+name="[^"]*" at position i (name is 'integrity="' or 'crossorigin="').
MatchAttr(s, i, name) ==
    LET w == SkipRun(s, WhiteSpace, i)
        q == FindAny(s, {Quote}, w + Len(name))
    IN  IF s[i] \in WhiteSpace /\ HasAt(s, w, name) /\ q > 0
        THEN [end |-> q, gs |-> 0, ge |-> 0]
        ELSE NoMatch

\* str.replace(old, new): every occurrence of old, left to right.
RECURSIVE ReplaceAll(_, _, _)
ReplaceAll(s, old, new) ==
    LET i == Find(s, old, 1)
    IN  IF i = 0 THEN s
        ELSE Slice(s, 1, i - 1) \o new
             \o ReplaceAll(Slice(s, i + Len(old), Len(s)), old, new)

\* url.split(host, 1)[-1]: what follows the first occurrence of host.
AfterFirst(url, host) ==
    LET i == Find(url, host, 1)
    IN  IF i = 0 THEN url ELSE Slice(url, i + Len(host), Len(url))

\* text.split("/", 3)[-1]: what follows the third '/', or the last '/' when
\* there are fewer.
RECURSIVE AfterSlashes(_, _)
AfterSlashes(text, n) ==
    LET i == Find(text, <<"/">>, 1)
    IN  IF n = 0 \/ i = 0 THEN text
        ELSE AfterSlashes(Slice(text, i + 1, Len(text)), n - 1)

\* replacer(match), lines 78-86: whole is match.group(0), url match.group(1),
\* ord the hosts in the order the loop over the set visits them.
replacer(whole, url, ord) ==
    LET hits == {k \in 1..Len(ord) : Contains(url, ord[k])}
        host == ord[CHOOSE k \in hits : \A j \in hits : k <= j]
    IN  IF IsImage(url) THEN whole
        ELSE IF hits = {} THEN whole
        ELSE ReplaceAll(whole, url,
                        <<".", "/">> \o LStrip(AfterFirst(url, host), "/"))

\* The match of one of the seven patterns at position i.
Match(pat, s, i) ==
    CASE pat = "script"      -> MatchTagAttr(s, i, <<"<","s","c","r","i","p","t">>,
                                             <<"s","r","c","=","\"">>)
      [] pat = "link"        -> MatchTagAttr(s, i, <<"<","l","i","n","k">>,
                                             <<"h","r","e","f","=","\"">>)
      [] pat = "import"      -> MatchImport(s, i)
      [] pat = "httpnext"    -> MatchHostNext(s, AfterHttp(s, i))
      [] pat = "slashnext"   -> MatchSlashNext(s, i)
      [] pat = "integrity"   -> MatchAttr(s, i, <<"i","n","t","e","g","r","i","t","y","=","\"">>)
      [] pat = "crossorigin" -> MatchAttr(s, i, <<"c","r","o","s","s","o","r","i","g","i","n","=","\"">>)

\* What a match is replaced by.
Replacement(pat, s, i, m, ord) ==
    CASE pat \in {"script", "link"} ->
            replacer(Slice(s, i, m.end), Slice(s, m.gs, m.ge), ord)
      [] pat = "import" ->
            <<"@","i","m","p","o","r","t"," ","u","r","l","(","\"",".","/">>
            \o AfterSlashes(Slice(s, m.gs, m.ge), 3) \o <<"\"", ")">>
      [] pat \in {"httpnext", "slashnext"} ->
            <<".","/","_","n","e","x","t","/","s","t","a","t","i","c","/">>
      [] pat \in {"integrity", "crossorigin"} -> <<>>

\* re.sub(pattern, replacement, s) from position i on: the leftmost match is
\* replaced and the search goes on after it.
RECURSIVE ReSub(_, _, _, _)
ReSub(pat, s, i, ord) ==
    LET starts == {j \in i..Len(s) : Match(pat, s, j).end # 0}
    IN  IF starts = {} THEN SubSeq(s, i, Len(s))
        ELSE \* the leftmost match at or after i; the scan resumes behind it
             LET j == CHOOSE k \in starts : \A l \in starts : k <= l
                 m == Match(pat, s, j)
             IN  SubSeq(s, i, j - 1) \o Replacement(pat, s, j, m, ord)
                                     \o ReSub(pat, s, m.end + 1, ord)

\* The substitutions of a sequence of patterns, each applied to the result
\* of the one before.
RECURSIVE SubEach(_, _, _)
SubEach(pats, s, ord) ==
    IF pats = <<>> THEN s
    ELSE CHOOSE r \in {SubEach(Tail(pats), t, ord) :
                          t \in {ReSub(Head(pats), s, 1, ord)}} : TRUE

\* Lines 88-101: the seven substitutions, in the order of the code.
PatchText(s, ord) ==
    SubEach(<<"script", "link", "import", "httpnext", "slashnext", "integrity",
              "crossorigin">>, s, ord)

-----------------------------------------------------------------------------
(* The patcher: patch_index                                                *)

IndexName == <<"i","n","d","e","x",".","h","t","m","l">>

\* Lines 129-131 of main: the entry document is <root>/index.html, or
\* index.html in the working directory when that does not exist.
index_path(d, f) ==
    IF exists(d, f, FsEncode(PathJoin(RootArg, IndexName)))
    THEN PathJoin(RootArg, IndexName)
    ELSE IndexName

\* The clock counts ticks; so many make a second.
TicksPerSecond == 2

\* The bounds on the clock and on the number of runs.
MaxClock == 2
MaxRuns == 2

TwoDigits(n) == <<Chr(48 + ((n \div 10) % 10)), Chr(48 + (n % 10))>>

\* time.strftime("%Y%m%d-%H%M%S") at tick t of the day the runs take place.
strftime(t) ==
    LET sec == t \div TicksPerSecond
    IN  <<"2","0","2","6","0","1","0","1","-">>
        \o TwoDigits(sec \div 3600) \o TwoDigits((sec \div 60) % 60) \o TwoDigits(sec % 60)

BakSuffix == <<".","b","a","k","-">>

\* bak = index_path + f".bak-{stamp}"
BackupPath(p, t) == p \o BakSuffix \o strftime(t)

\* The backup files on disk: the files named index.html.bak-<stamp> in the
\* site root and in the working directory.
BackupFiles ==
    {l \in DOMAIN files :
        /\ Slice(l, 1, Len(l) - 1) \in {Loc(RootArg), CwdLoc}
        /\ StartsWith(l[Len(l)], Encode(IndexName \o BakSuffix))}

\* The orders in which a loop over a set may visit its elements.
Orders(S) ==
    {seq \in [1..Cardinality(S) -> S] : \A i, j \in 1..Cardinality(S) : seq[i] = seq[j] => i = j}

\* open(index_path, 'r', encoding='utf-8') and f.read(), lines 69-70: ok is
\* FALSE when the path names a directory or the content is not UTF-8.
ReadText(d, f, bp) ==
    IF LocB(bp) \in DOMAIN f THEN Decode(f[LocB(bp)])
    ELSE [ok |-> FALSE, text |-> <<>>]

\* Where the run goes on after patch_index: main ends; a run of patch_index
\* alone is followed by the next.
AfterPatch == IF prog = "main" THEN "done" ELSE "patch"

\* Lines 66-68: the entry document does not exist; patch_index returns.
PatchIndexMissing ==
    /\ pc = "patch"
    /\ runs < MaxRuns
    /\ ~exists(dirs, files, FsEncode(index_path(dirs, files)))
    /\ runs' = runs + 1
    /\ pc' = AfterPatch
    /\ UNCHANGED <<prog, locale, entries, idx, hosts, written, outcome, wrote, dirs,
                   files, walk, todo, copied, doc, doc0, docPrev, order,
                   found, patched, clock>>

\* Lines 69-105: the document is read; when backup is set it is saved, as
\* UTF-8, to the backup named after the current second; it is patched and
\* written back as UTF-8, and the patch reported.  The loop over the host
\* set visits the hosts in an order the run does not control.  An exception
\* of the read, of a write or of the last print is not caught: a write that
\* raises leaves what was accepted of it in the backup, or in the document
\* itself.  (The messages of lines 66 and 75 are ASCII; of the message of
\* line 105 one character is not, the arrow U+2192.)
PatchIndexWith(backup) ==
    /\ pc = "patch"
    /\ runs < MaxRuns
    /\ \E p \in {index_path(dirs, files)} :
       /\ exists(dirs, files, FsEncode(p))
       /\ \E r \in {ReadText(dirs, files, FsEncode(p))} :
          IF ~r.ok
          THEN /\ pc' = "aborted"
               /\ UNCHANGED <<files, doc, doc0, docPrev, order, patched>>
          ELSE
          \E bakFail \in IoFails(Len(Encode(r.text))) :
          \E bak \in {IF backup
                      THEN OpenWriteText(dirs, files, FsEncode(BackupPath(p, clock)),
                                         r.text, "utf-8", bakFail)
                      ELSE [ok |-> TRUE, files |-> files]} :
             IF ~bak.ok
             THEN /\ files' = bak.files
                  /\ pc' = "aborted"
                  /\ UNCHANGED <<doc, doc0, docPrev, order, patched>>
             ELSE
             \E ord \in Orders(hosts) :
             \E new \in {PatchText(r.text, ord)} :
             \E outFail \in IoFails(Len(Encode(new))) :
             \E out \in {OpenWriteText(dirs, bak.files, FsEncode(p), new, "utf-8",
                                       outFail)} :
                /\ files' = out.files
                /\ IF ~out.ok
                   THEN /\ pc' = "aborted"
                        /\ UNCHANGED <<doc, doc0, docPrev, order, patched>>
                   ELSE /\ order' = ord
                        /\ docPrev' = r.text
                        /\ doc0' = IF found = 0 THEN r.text ELSE doc0
                        /\ doc' = new
                        /\ patched' = patched + 1
                        /\ pc' = IF PrintOk(<<Chr(8594)>>) THEN AfterPatch
                                 ELSE "aborted"
    /\ runs' = runs + 1
    /\ found' = found + 1
    /\ UNCHANGED <<prog, locale, entries, idx, hosts, written, outcome, wrote, dirs,
                   walk, todo, copied, clock>>

\* Line 132: main, the only caller, leaves backup at its default.
PatchIndex == PatchIndexWith(TRUE)

\* Time passes.
Tick ==
    /\ pc = "patch"
    /\ clock < MaxClock
    /\ clock' = clock + 1
    /\ UNCHANGED <<prog, locale, pc, entries, idx, hosts, written, outcome, wrote, dirs,
                   files, walk, todo, copied, doc, doc0, docPrev, order, runs,
                   found, patched>>

Https == <<"h","t","t","p","s",":","/","/">>
HostA == <<"a",".","i","o">>
HostB == <<"b",".","i","o">>
NextDir == <<"/","_","n","e","x","t","/","s","t","a","t","i","c">>

\* The URLs the documents refer to.
DocUrls ==
    { Https \o HostA \o <<"/","x",".","j","s">>,
      Https \o HostA \o <<"/","x",".","p","n","g">>,
      Https \o HostA \o NextDir \o <<"/","x",".","j","s">>,
      Https \o HostA \o NextDir \o <<"/","x",".","p","n","g">>,
      Https \o HostB \o <<"/">> \o HostA \o <<"/","x",".","j","s">>,
      Https \o HostA \o <<"/">> \o HostA \o <<"/","x",".","j","s">>,
      <<"/","/">> \o HostA \o NextDir \o <<"/","X",".","P","N","G">>,
      Https \o <<"c",".","i","o">> \o <<"/","x",".","j","s">>,
      <<".","/","x",".","j","s">>,
      HttpA \o <<"/","x",".","c","s","s","?","v","=","1">> }

TagOpeners ==
    { <<"<","s","c","r","i","p","t"," ","s","r","c","=","\"">>,
      <<"<","l","i","n","k"," ","h","r","e","f","=","\"">>,
      <<"<","i","m","g"," ","s","r","c","=","\"">> }

TagClosers ==
    { <<"\"",">">>,
      <<"\""," ","i","n","t","e","g","r","i","t","y","=","\"","h","\""," ",
        "c","r","o","s","s","o","r","i","g","i","n","=","\"","a","\"",">">>,
      <<"\""," ","d","a","t","a","-","s","r","c","=","\"","y","\"",">">> }

ImportOpen == <<"@","i","m","p","o","r","t"," ","u","r","l","(">>

\* The URLs of the @import statements.
ImportUrls ==
    { Https \o HostA \o <<"/","x",".","c","s","s">>,
      HttpB \o NextDir \o <<"/","x",".","c","s","s">>,
      Https \o HostA \o <<"/","x",".","p","n","g">> }

ImportQuotes == { <<>>, <<"\"">>, <<"'">> }

\* The entry documents: one tag around one URL (each URL in a tag that ends
\* after it, one URL in the tags with further attributes), or one @import
\* statement.
Docs ==
    {o \o u \o <<"\"", ">">> : o \in TagOpeners, u \in DocUrls}
    \cup {o \o Https \o HostA \o UrlX \o c : o \in TagOpeners, c \in TagClosers}
    \cup {ImportOpen \o q \o u \o q \o <<")", ";">> : q \in ImportQuotes, u \in ImportUrls}

\* One of the documents, with a script tag that refers to host a.io.
ScriptDoc ==
    <<"<","s","c","r","i","p","t"," ","s","r","c","=","\"">>
    \o Https \o HostA \o <<"/","x",".","j","s">> \o <<"\"",">">>

\* Contents of index.html that are not the encoding of a document as it is
\* read: a document with the line ends "\r\n" and "\r", one with a two-byte
\* character and a no-break space before an attribute, and one that is not
\* UTF-8.
OddContents ==
    { Encode(ScriptDoc) \o <<13, 10, 13>>,
      Encode(<<"<","l","i","n","k"," ","h","r","e","f","=","\"">>
             \o Https \o HostA \o <<"/",Chr(233),".","c","s","s","\"",Chr(160)>>
             \o <<"i","n","t","e","g","r","i","t","y","=","\"","h","\"",">">>),
      Encode(ScriptDoc) \o <<128>> }

\* The files on disk before the first run: the entry document in the site
\* root, or in the working directory only, or nowhere.
PatchFiles ==
    {[l \in {Loc(PathJoin(RootArg, IndexName))} |-> Encode(d)] : d \in Docs}
    \cup {[l \in {Loc(PathJoin(RootArg, IndexName))} |-> b] : b \in OddContents}
    \cup {[l \in {Loc(IndexName)} |-> Encode(ScriptDoc)], <<>>}

InitPatch ==
    /\ locale \in Locales
    /\ prog = "patch_index"
    /\ pc = "patch"
    /\ entries = <<>>
    /\ idx = 1
    /\ hosts \in { {}, {HostA}, {HostA, HostB} }
    /\ written = 0
    /\ outcome = <<>>
    /\ wrote = {}
    /\ dirs = InitDirs
    /\ files \in PatchFiles
    /\ Untouched

NextPatch ==
    \/ PatchIndexMissing
    \/ PatchIndex
    \/ Tick

\* Successive calls of patch_index as main makes them, on the entry document
\* of the site root or of the working directory, at clock times of the
\* environment's choosing.
SpecPatch == InitPatch /\ [][NextPatch]_vars

-----------------------------------------------------------------------------
(* The orchestrator: main                                                  *)

\* os.path.relpath(path, start): both are made absolute and normalized; the
\* result climbs from start to the common ancestor and descends to path.
relpath(bp, start) ==
    LET joined(rel) == IF rel = <<>> THEN Dot ELSE Join(<<Slash>>, rel)
        from(a, b, i) ==
            joined([k \in 1..(Len(a) - i) |-> DotDot] \o Slice(b, i + 1, Len(b)))
        common(a, b, same) == from(a, b, CHOOSE k \in same : \A j \in same : j <= k)
        between(a, b) ==
            common(a, b, {i \in 0..Len(a) :
                            i <= Len(b) /\ Slice(a, 1, i) = Slice(b, 1, i)})
    IN  CHOOSE r \in {between(a, b) : a \in {LocB(start)}, b \in {LocB(bp)}} : TRUE

\* The names of the regular files and of the directories in the directory
\* at loc.
FileNames(loc) ==
    {l[Len(l)] : l \in {m \in DOMAIN files : Len(m) = Len(loc) + 1
                                              /\ Slice(m, 1, Len(loc)) = loc}}

DirNames(loc) ==
    {l[Len(l)] : l \in {m \in dirs : Len(m) = Len(loc) + 1
                                     /\ Slice(m, 1, Len(loc)) = loc}}

\* What main leaves alone outside the copy loop's own state.
CopyUnchanged ==
    UNCHANGED <<prog, locale, entries, idx, hosts, written, outcome, wrote, doc, doc0,
                docPrev, order, runs, found, patched, clock>>

\* Lines 112-115: the staging directory is made and extract_har called; an
\* exception of os.makedirs is not caught.
MainMakedirs ==
    /\ pc = "main"
    /\ \E m \in {makedirs(dirs, files, FsEncode(out_sub))} :
          /\ dirs' = m.dirs
          /\ pc' = IF m.ok THEN "extract" ELSE "aborted"
    /\ UNCHANGED <<files, walk, todo, copied>>
    /\ CopyUnchanged

\* Line 118: os.walk lists the next directory, top down: its files are
\* copied next, its subdirectories are listed after that, before the
\* directories found earlier.  The order within a listing is the
\* filesystem's; a directory that cannot be listed is passed over.  (The
\* test of line 116 never fails: out_sub is out_dir/out_extracted.)
ListDir ==
    /\ pc = "copy"
    /\ todo = <<>>
    /\ walk # <<>>
    /\ LET top == Head(walk)
       IN  IF exists(dirs, files, top) /\ LocB(top) \in dirs
           THEN \E fo \in Orders(FileNames(LocB(top))) :
                \E do \in Orders(DirNames(LocB(top))) :
                    /\ todo' = [k \in 1..Len(fo) |-> JoinWith(Slash, top, fo[k])]
                    /\ walk' = [k \in 1..Len(do) |-> JoinWith(Slash, top, do[k])]
                               \o Tail(walk)
           ELSE /\ todo' = todo
                /\ walk' = Tail(walk)
    /\ UNCHANGED <<pc, dirs, files, copied>>
    /\ CopyUnchanged

\* dst of line 122, for the file src of the listing.
CopyDst(src) ==
    JoinWith(Slash, FsEncode(RootArg), relpath(src, FsEncode(out_sub)))

\* Lines 119-125: the next file of the listing is copied to the site root,
\* at its path relative to the staging directory; an exception of
\* os.makedirs, of open or of write is not caught (open(src) comes first:
\* when it raises, dst is not opened; when the write raises, dst holds what
\* was accepted of it).
CopyFile ==
    /\ pc = "copy"
    /\ todo # <<>>
    /\ \E src \in {LocB(Head(todo))} :
       \E dst \in {CopyDst(Head(todo))} :
       \E m \in {makedirs(dirs, files, DirNameWith(Slash, dst))} :
       \E ioFail \in IoFails(IF src \in DOMAIN files THEN Len(files[src]) ELSE 0) :
       \E w \in {IF m.ok /\ src \in DOMAIN files
                 THEN OpenWrite(m.dirs, files, dst, files[src], ioFail)
                 ELSE [ok |-> FALSE, files |-> files]} :
          /\ dirs' = m.dirs
          /\ files' = w.files
          /\ IF w.ok
             THEN /\ copied' = copied \cup {LocB(dst)}
                  /\ todo' = Tail(todo)
                  /\ pc' = pc
             ELSE /\ pc' = "aborted"
                  /\ UNCHANGED <<copied, todo>>
    /\ UNCHANGED walk
    /\ CopyUnchanged

\* Lines 126-131: the walk is over; patch_index is called next.
CopyComplete ==
    /\ pc = "copy"
    /\ todo = <<>>
    /\ walk = <<>>
    /\ pc' = "patch"
    /\ UNCHANGED <<dirs, files, walk, todo, copied>>
    /\ CopyUnchanged

StagingName == <<"o","u","t","_","e","x","t","r","a","c","t","e","d">>

\* The entries a HAR given to main is drawn from: a script, a new entry
\* document, files whose paths lead back into the staging directory, a path
\* that leaves it, an absolute path, a URL that cannot be parsed, and the
\* entries the loop skips.
MainEntrySet ==
    { Entry(HttpA \o UrlX, TRUE, Body, "none"),
      Entry(HttpA \o <<"/">> \o IndexName, TRUE, ScriptDoc, "none"),
      Entry(HttpA \o <<"/">> \o StagingName \o <<"/","d">> \o UrlX, TRUE, Body, "none"),
      Entry(HttpB \o <<"/","d","/","y",".","j","s">>, TRUE, Body, "none"),
      Entry(HttpA \o <<"/">> \o StagingName, TRUE, Body, "none"),
      Entry(HttpA \o <<"/","%","2","e","%","2","e">> \o UrlX, TRUE, Body, "none"),
      Entry(HttpA \o <<"/","%","2","F","x",".","j","s">>, TRUE, Body, "none"),
      Entry(BadUrl, TRUE, Body, "none"),
      Entry(HttpA \o <<"/","x",".","p","n","g">>, TRUE, Body, "none"),
      Entry(UrlX, TRUE, Body, "none"),
      Entry(<<>>, TRUE, Body, "none"),
      Entry(HttpB \o UrlX, FALSE, <<>>, "none") }

\* The files on disk before main runs: none, the entry document in the site
\* root or in the working directory, or a regular file where the staging
\* directory is to be.
MainFiles ==
    { <<>>,
      [l \in {Loc(PathJoin(RootArg, IndexName))} |-> Encode(ScriptDoc)],
      [l \in {Loc(IndexName)} |-> Encode(ScriptDoc)],
      [l \in {Loc(out_sub)} |-> <<>>] }

\* The bound on the number of entries of a HAR given to main.
MaxMainEntries == 1

InitMain ==
    /\ locale \in Locales
    /\ prog = "main"
    /\ pc = "main"
    /\ entries \in UNION {[1..n -> MainEntrySet] : n \in 0..MaxMainEntries}
    /\ idx = 1
    /\ hosts = {}
    /\ written = 0
    /\ outcome = <<>>
    /\ wrote = {}
    /\ dirs = MainDirs
    /\ files \in MainFiles
    /\ Untouched

NextMain ==
    \/ MainMakedirs
    \/ SkipNoUrl
    \/ RaiseBadUrl
    \/ SkipNoHost
    \/ SkipImage
    \/ SkipNoBody
    \/ TryWrite
    \/ WriteHostsFile
    \/ ListDir
    \/ CopyFile
    \/ CopyComplete
    \/ PatchIndexMissing
    \/ PatchIndex

\* One run of main from line 112 on: a HAR of at most MaxMainEntries
\* entries and the site root r, below the working directory.
SpecMain == InitMain /\ [][NextMain]_vars

-----------------------------------------------------------------------------
(* Properties of the extractor                                             *)

Finished == pc \in {"done", "aborted"}

\* The decoded path of an entry's URL, before an empty path is replaced.
DecodedPath(e) == Unquote(LStrip(UrlPath(e.url), "/"))

\* Whether a path ends in one of the seven image extensions, in any case
\* (stated on its own, apart from the code's test).
EndsInImageExt(p) ==
    \E ext \in {<<".","p","n","g">>, <<".","j","p","g">>, <<".","j","p","e","g">>,
                <<".","g","i","f">>, <<".","w","e","b","p">>, <<".","s","v","g">>,
                <<".","i","c","o">>} :
        /\ Len(p) >= Len(ext)
        /\ \A k \in 1..Len(ext) : LowerChar(p[Len(p) - Len(ext) + k]) = ext[k]

\* The location of the file an entry is to be written to.
EntryLoc(e) == Loc(OutPath(out_sub, e))

\* Whether a file name, as the bytes the system keeps, ends in one of the
\* seven image extensions, in any case.
NameEndsInImageExt(name) ==
    \E ext \in {Encode(x) : x \in {<<".","p","n","g">>, <<".","j","p","g">>,
                                   <<".","j","p","e","g">>, <<".","g","i","f">>,
                                   <<".","w","e","b","p">>, <<".","s","v","g">>,
                                   <<".","i","c","o">>}} :
        /\ Len(name) >= Len(ext)
        /\ \A k \in 1..Len(ext) :
              LET b == name[Len(name) - Len(ext) + k]
              IN  (IF b >= 65 /\ b <= 90 THEN b + 32 ELSE b) = ext[k]

\* The entries C1 speaks of: a non-empty URL, a non-image path, a body.
HasWritableShape(e) ==
    /\ e.url # <<>>
    /\ ~EndsInImageExt(DecodedPath(e))
    /\ e.hasText

\* Whether the file of entry i is on disk with the entry's body as content.
FileHoldsBody(i) ==
    /\ EntryLoc(entries[i]) \in DOMAIN files
    /\ files[EntryLoc(entries[i])] = BodyBytes(entries[i])

\* C1 as claimed: after extract_har has returned, every entry with a
\* non-empty URL, a non-image decoded path and a body has a file at its
\* derived path whose content is the (decoded) body.
C1_EveryBodyOnDisk ==
    pc = "done" =>
        \A i \in 1..Len(entries) : HasWritableShape(entries[i]) => FileHoldsBody(i)

\* The authorities of the entries that have a non-empty URL (a URL without
\* an authority contributes none).
Authorities == {Netloc(entries[i].url) : i \in {j \in 1..Len(entries) : entries[j].url # <<>>}}
                  \ {<<>>}

\* Whether a sequence of strings is strictly increasing.
Increasing(seq) == \A i \in 1..(Len(seq) - 1) : StrLess(seq[i], seq[i + 1])

\* C3: when extract_har has returned, the host set is the set of authorities
\* of all entries with a non-empty URL, images and bodiless entries included,
\* and extracted_hosts.txt holds exactly these hosts, sorted, one per line.
C3_HostSet ==
    pc = "done" =>
        /\ hosts = Authorities
        /\ Loc(HostsFilePath(out_sub)) \in DOMAIN files
        /\ \E seq \in [1..Cardinality(Authorities) -> Authorities] :
              /\ {seq[i] : i \in 1..Len(seq)} = Authorities
              /\ Increasing(seq)
              /\ files[Loc(HostsFilePath(out_sub))] = Encode(Join(<<NL>>, seq))

\* C3 witness: a finished run whose two hosts come from an image entry and
\* from an entry without a body, neither of which was written.
C3_Witness ==
    /\ pc = "done"
    /\ outcome = <<"image", "no_body">>
    /\ Cardinality(hosts) = 2
    /\ wrote = {}

\* C5 as claimed: a run in which an entry's write failed still processes
\* every entry and finishes by writing the host file and returning the host
\* set.
C5_AlwaysFinishes ==
    (Finished /\ \E i \in 1..Len(outcome) : outcome[i] = "error") =>
        /\ pc = "done"
        /\ Len(outcome) = Len(entries)
        /\ Loc(HostsFilePath(out_sub)) \in DOMAIN files

\* C7: no file is written for an entry whose decoded path ends in an image
\* extension, in any case of the letters: such an entry never reaches the
\* try statement, is never one of the written ones, and no regular file on
\* disk has an image name.
C7_NoImageWritten ==
    /\ \A i \in 1..Len(outcome) :
          EndsInImageExt(DecodedPath(entries[i])) =>
              /\ outcome[i] \notin {"wrote", "error", "wrote_raised", "error_raised"}
              /\ \A r \in wrote : r.i # i
    /\ \A l \in DOMAIN files : ~NameEndsInImageExt(l[Len(l)])

\* C7 witness: an upper-case image entry was passed over, after which another
\* entry was written.
C7_Witness ==
    /\ Len(outcome) = 2
    /\ outcome = <<"image", "wrote">>
    /\ EndsInImageExt(DecodedPath(entries[1]))
    /\ ~IsImage_nolower(DecodedPath(entries[1]))
    /\ files # <<>>

\* Whether location l lies below directory d.
Below(l, d) == Len(l) > Len(d) /\ Slice(l, 1, Len(d)) = d

\* C10 as claimed: every file extract_har writes lies inside the output
\* directory it was given, and every file main's copy step writes lies
\* inside the site root.
C10_WritesStayInside ==
    /\ \A r \in wrote : Below(r.loc, Loc(out_sub))
    /\ \A l \in copied : Below(l, Loc(RootArg))

-----------------------------------------------------------------------------
(* Properties of the patcher                                               *)

DoubleQuote == <<"\"">>
ScriptOpener == <<"<","s","c","r","i","p","t"," ","s","r","c","=","\"">>
LinkOpener == <<"<","l","i","n","k"," ","h","r","e","f","=","\"">>

\* C2 as claimed: after patch_index has run, every URL that ends in an image
\* extension is still in the tag it was in, whichever tag that is, exactly as
\* it was.
C2_ImagesUntouched ==
    patched >= 1 =>
        \A o \in TagOpeners : \A u \in DocUrls :
            (EndsInImageExt(u) /\ Contains(doc0, o \o u \o DoubleQuote))
            => Contains(doc, o \o u \o DoubleQuote)

\* C4 as claimed: a second run of patch_index with the same host set leaves
\* the text the first run produced unchanged.
C4_SecondRunChangesNothing ==
    patched >= 2 => doc = docPrev

\* C6 as claimed: after n runs that found the entry document there are n
\* backup files.
C6_OneBackupPerRun ==
    Cardinality(BackupFiles) = found

\* What follows scheme://h/ in url; <<"none">> when url has not that form.
RestAfterHost(url, h) ==
    LET https == <<"h","t","t","p","s",":","/","/">> \o h \o <<"/">>
        http  == <<"h","t","t","p",":","/","/">> \o h \o <<"/">>
    IN  IF StartsWith(url, https) THEN Slice(url, Len(https) + 1, Len(url))
        ELSE IF StartsWith(url, http) THEN Slice(url, Len(http) + 1, Len(url))
        ELSE <<"none">>

\* C8 as claimed (its first half): after one run, every script src and link
\* href whose URL is no image and has the form scheme://H/rest, with H in
\* the host set, has the value ./rest.
C8_TagRewritten ==
    patched = 1 =>
        \A o \in {ScriptOpener, LinkOpener} : \A u \in DocUrls : \A h \in hosts :
            ( /\ ~EndsInImageExt(u)
              /\ RestAfterHost(u, h) # <<"none">>
              /\ Contains(doc0, o \o u \o DoubleQuote) )
            => Contains(doc, o \o <<".", "/">> \o RestAfterHost(u, h) \o DoubleQuote)

\* C9 as claimed: after one run, an @import of an http(s) URL, quoted or not,
\* has become @import url("./path"), path being what follows the host of the
\* URL, with nothing else left of the original.
C9_ImportRewritten ==
    patched = 1 =>
        \A q \in ImportQuotes : \A u \in ImportUrls : \A h \in {HostA, HostB} :
            ( /\ RestAfterHost(u, h) # <<"none">>
              /\ doc0 = ImportOpen \o q \o u \o q \o <<")", ";">> )
            => doc = ImportOpen \o DoubleQuote \o <<".", "/">> \o RestAfterHost(u, h)
                     \o DoubleQuote \o <<")", ";">>

=============================================================================
